---- MODULE Spec2Model ----
(***************************************************************************)
(* A model of MultiIndexedCollection and AutoUpdatingItem                  *)
(* (src/multi_indexed_collection.py).                                      *)
(*                                                                         *)
(* Two collections and two stored objects are modelled.  Every public      *)
(* mutating method is one action; an attribute write on an                 *)
(* AutoUpdatingItem is one action that contains all the update_item calls  *)
(* it makes.  The variable `last` records the most recent call: its        *)
(* arguments, its outcome and the snapshot the collection held before it.  *)
(***************************************************************************)
EXTENDS Integers, Sequences, FiniteSets, TLC

\* ---------------------------------------------------------------- bounds
MaxVal == 2       \* values of the attribute name are 1..MaxVal
MaxId == 2        \* values of the attribute user_id are 1..MaxId
MaxBound == 2     \* longest _multi_indexed_collections list explored
MaxCount == 2     \* most registering add calls counted per collection

\* ------------------------------------------------------------ the universe
Values == 1..(IF MaxVal > MaxId THEN MaxVal ELSE MaxId)
values_of(p) == IF p = "name" THEN 1..MaxVal ELSE 1..MaxId
Absent == 0       \* hasattr(obj, prop) is False
AutoItems == {"autojohn"}           \* instances of AutoUpdatingItem
PlainItems == {"pete"}              \* instances of a plain class
Objects == AutoItems \cup PlainItems
Collections == {"mic1", "mic2"}
Props == {"name", "user_id"}
FieldsOfPlain == {"name"}

\* self._properties of each collection (fixed by __init__)
properties(c) == IF c = "mic1" THEN {"name", "user_id"} ELSE {"name"}

\* self._auto_update of each collection: mic1 is constructed with the
\* default (False), mic2 with auto_update=True.  __init__ stores the flag and
\* no method reads it.
auto_update(c) == c = "mic2"

VARIABLES
    attrs,                       \* attrs[o][p]: the object's attribute, or Absent
    dicts,                       \* dicts[c][p]: sub-map value -> object (self._dicts)
    propdict,                    \* propdict[c]: object -> snapshot (self._propdict)
    multi_indexed_collections,   \* per AutoUpdatingItem: list of collections
    last,                        \* the last recorded call and its outcome
    n_add,                       \* per collection: add calls that registered an object
    n_remove,                    \* per collection: remove calls that returned normally
    at_clear                     \* per collection: n_add - n_remove at the last clear()

vars == <<attrs, dicts, propdict, multi_indexed_collections, last, n_add, n_remove, at_clear>>

\* ------------------------------------------------------- dict primitives
EmptyDict == [x \in {} |-> 0]
dict_set(d, k, x) == [y \in DOMAIN d \cup {k} |-> IF y = k THEN x ELSE d[y]]
dict_del(d, k) == [y \in DOMAIN d \ {k} |-> d[y]]
\* dict.items() as a set of pairs
items(d) == {<<k, d[k]>> : k \in DOMAIN d}
\* dict(set of pairs)
dict_of(pairs) == [k \in {pv[1] : pv \in pairs} |-> (CHOOSE pv \in pairs : pv[1] = k)[2]]

isinstance_AutoUpdatingItem(o) == o \in AutoItems

\* {(prop, getattr(obj, prop)) for prop in self._properties if hasattr(obj, prop)}
prop_results(c, o, at) ==
    {<<p, at[o][p]>> : p \in {q \in properties(c) : at[o][q] # Absent}}

\* Outcomes of a call.  DuplicateKeyError and NotFoundError are both raised
\* as KeyError by the code: the first is KeyError("Collection already
\* contains ..."), the second KeyError(obj) or a failed dict lookup.
KeyErrors == {"DuplicateKeyError", "NotFoundError"}

\* list.remove(x): drops the first occurrence of x
RECURSIVE list_remove(_, _)
list_remove(B, c) ==
    IF B = <<>> THEN <<>>
    ELSE IF Head(B) = c THEN Tail(B)
    ELSE <<Head(B)>> \o list_remove(Tail(B), c)

in_list(B, c) == \E i \in 1..Len(B) : B[i] = c

\* for (prop, val) in pairs: self._dicts[prop][val] = obj
insert_all(D, pairs, o) ==
    [p \in DOMAIN D |->
        [v \in DOMAIN D[p] \cup {pv[2] : pv \in {qv \in pairs : qv[1] = p}} |->
            IF <<p, v>> \in pairs THEN o ELSE D[p][v]]]

\* for (prop, val) in pairs: del self._dicts[prop][val]
delete_all(D, pairs) ==
    [p \in DOMAIN D |->
        [v \in DOMAIN D[p] \ {pv[2] : pv \in {qv \in pairs : qv[1] = p}} |-> D[p][v]]]

\* `del` of a key that is not there raises KeyError
delete_fails(D, pairs) == \E pv \in pairs : pv[2] \notin DOMAIN D[pv[1]]

\* val in self._dicts[prop].keys() for some (prop, val) of pairs
duplicate_key(D, pairs) == \E pv \in pairs : pv[2] \in DOMAIN D[pv[1]]

\* add that starts inserting before every value has been checked: the
\* entries that do not collide are committed although the call raises
add_result_partial(c, o, D, P, B, at) ==
    IF o \in DOMAIN P
    THEN [D |-> D, P |-> P, B |-> B, res |-> "ok"]
    ELSE LET B1 == IF isinstance_AutoUpdatingItem(o) THEN Append(B, c) ELSE B
             pr == prop_results(c, o, at)
             free == {pv \in pr : pv[2] \notin DOMAIN D[pv[1]]}
         IN  IF duplicate_key(D, pr)
             THEN [D |-> insert_all(D, free, o), P |-> P, B |-> B1,
                   res |-> "DuplicateKeyError"]
             ELSE [D |-> insert_all(D, pr, o),
                   P |-> dict_set(P, o, dict_of(pr)),
                   B |-> B1, res |-> "ok"]

\* add that records the snapshot but indexes the object under name only
add_result_name_only(c, o, D, P, B, at) ==
    IF o \in DOMAIN P
    THEN [D |-> D, P |-> P, B |-> B, res |-> "ok"]
    ELSE LET B1 == IF isinstance_AutoUpdatingItem(o) THEN Append(B, c) ELSE B
             pr == prop_results(c, o, at)
         IN  IF duplicate_key(D, pr)
             THEN [D |-> D, P |-> P, B |-> B1, res |-> "DuplicateKeyError"]
             ELSE [D |-> insert_all(D, {pv \in pr : pv[1] = "name"}, o),
                   P |-> dict_set(P, o, dict_of(pr)),
                   B |-> B1, res |-> "ok"]

\* add that binds the collection before it looks whether the object is
\* already registered
add_result_rebinds(c, o, D, P, B, at) ==
    LET B1 == IF isinstance_AutoUpdatingItem(o) THEN Append(B, c) ELSE B
        pr == prop_results(c, o, at)
    IN  IF o \in DOMAIN P
        THEN [D |-> D, P |-> P, B |-> B1, res |-> "ok"]
        ELSE IF duplicate_key(D, pr)
        THEN [D |-> D, P |-> P, B |-> B1, res |-> "DuplicateKeyError"]
        ELSE [D |-> insert_all(D, pr, o),
              P |-> dict_set(P, o, dict_of(pr)),
              B |-> B1, res |-> "ok"]

\* MultiIndexedCollection.add: D, P are the collection's _dicts and
\* _propdict, B is obj._multi_indexed_collections (ignored for plain objects)
add_result(c, o, D, P, B, at) ==
    IF o \in DOMAIN P
    THEN [D |-> D, P |-> P, B |-> B, res |-> "ok"]
    ELSE LET B1 == IF isinstance_AutoUpdatingItem(o) THEN Append(B, c) ELSE B
             pr == prop_results(c, o, at)
         IN  IF duplicate_key(D, pr)
             THEN [D |-> D, P |-> P, B |-> B1, res |-> "DuplicateKeyError"]
             ELSE [D |-> insert_all(D, pr, o),
                   P |-> dict_set(P, o, dict_of(pr)),
                   B |-> B1, res |-> "ok"]

\* remove that deletes the entries of the object's current attribute values
\* instead of those of its stored snapshot
remove_result_current_values(c, o, D, P, B, at) ==
    IF o \notin DOMAIN P
    THEN [D |-> D, P |-> P, B |-> B, res |-> "NotFoundError"]
    ELSE [D |-> delete_all(D, prop_results(c, o, at)), P |-> dict_del(P, o),
          B |-> IF isinstance_AutoUpdatingItem(o) THEN list_remove(B, c) ELSE B,
          res |-> "ok"]

\* remove that deletes the registry entry but only the name entry of the index
remove_result_name_only(c, o, D, P, B, at) ==
    IF o \notin DOMAIN P
    THEN [D |-> D, P |-> P, B |-> B, res |-> "NotFoundError"]
    ELSE [D |-> delete_all(D, {pv \in items(P[o]) : pv[1] = "name"}), P |-> dict_del(P, o),
          B |-> IF isinstance_AutoUpdatingItem(o) THEN list_remove(B, c) ELSE B,
          res |-> "ok"]

\* remove that deletes the index entries and leaves the registry entry
remove_result_keeps_registry(c, o, D, P, B, at) ==
    IF o \notin DOMAIN P
    THEN [D |-> D, P |-> P, B |-> B, res |-> "NotFoundError"]
    ELSE [D |-> delete_all(D, items(P[o])), P |-> P,
          B |-> IF isinstance_AutoUpdatingItem(o) THEN list_remove(B, c) ELSE B,
          res |-> "ok"]

\* remove that deletes the registry entry and leaves the index entries
remove_result_keeps_entries(c, o, D, P, B, at) ==
    IF o \notin DOMAIN P
    THEN [D |-> D, P |-> P, B |-> B, res |-> "NotFoundError"]
    ELSE [D |-> D, P |-> dict_del(P, o),
          B |-> IF isinstance_AutoUpdatingItem(o) THEN list_remove(B, c) ELSE B,
          res |-> "ok"]

\* MultiIndexedCollection.remove (at, the objects' attributes, is not read)
remove_result(c, o, D, P, B, at) ==
    IF o \notin DOMAIN P
    THEN [D |-> D, P |-> P, B |-> B, res |-> "NotFoundError"]
    ELSE IF isinstance_AutoUpdatingItem(o) /\ ~in_list(B, c)
    THEN [D |-> D, P |-> P, B |-> B, res |-> "ValueError"]
    ELSE LET B1 == IF isinstance_AutoUpdatingItem(o) THEN list_remove(B, c) ELSE B
             pr == items(P[o])
         IN  IF delete_fails(D, pr)
             THEN [D |-> delete_all(D, pr), P |-> P, B |-> B1, res |-> "NotFoundError"]
             ELSE [D |-> delete_all(D, pr), P |-> dict_del(P, o), B |-> B1, res |-> "ok"]

\* discard without the try/except
discard_result_reraises(c, o, D, P, B, at) == remove_result(c, o, D, P, B, at)

\* MultiIndexedCollection.discard: remove, with KeyError swallowed
discard_result(c, o, D, P, B, at) ==
    LET r == remove_result(c, o, D, P, B, at)
    IN  IF r.res \in KeyErrors THEN [r EXCEPT !.res = "ok"] ELSE r

\* update_item that inserts the new entries and leaves the old ones in place
update_item_result_keeps_old(c, o, D, P, at) ==
    IF o \notin DOMAIN P
    THEN [D |-> D, P |-> P, res |-> "NotFoundError"]
    ELSE LET pr == prop_results(c, o, at)
             new_props == pr \ items(P[o])
         IN  IF duplicate_key(D, new_props)
             THEN [D |-> D, P |-> P, res |-> "DuplicateKeyError"]
             ELSE [D |-> insert_all(D, new_props, o),
                   P |-> dict_set(P, o, dict_of(pr)),
                   res |-> "ok"]

\* update_item that removes the old entries before it checks the new ones
update_item_result_deletes_first(c, o, D, P, at) ==
    IF o \notin DOMAIN P
    THEN [D |-> D, P |-> P, res |-> "NotFoundError"]
    ELSE LET pr == prop_results(c, o, at)
             old_props == items(P[o]) \ pr
             new_props == pr \ items(P[o])
         IN  IF duplicate_key(delete_all(D, old_props), new_props)
             THEN [D |-> delete_all(D, old_props), P |-> P, res |-> "DuplicateKeyError"]
             ELSE [D |-> insert_all(delete_all(D, old_props), new_props, o),
                   P |-> dict_set(P, o, dict_of(pr)),
                   res |-> "ok"]

\* update_item that indexes and registers an object the collection does not
\* hold, as add would
update_item_result_registers(c, o, D, P, at) ==
    LET pr == prop_results(c, o, at)
        prev_prop_results == IF o \in DOMAIN P THEN items(P[o]) ELSE {}
        old_props == prev_prop_results \ pr
        new_props == pr \ prev_prop_results
    IN  IF duplicate_key(D, new_props)
        THEN [D |-> D, P |-> P, res |-> "DuplicateKeyError"]
        ELSE [D |-> insert_all(delete_all(D, old_props), new_props, o),
              P |-> dict_set(P, o, dict_of(pr)),
              res |-> "ok"]

\* update_item that leaves the entry of a property the object no longer has
update_item_result_keeps_lost(c, o, D, P, at) ==
    IF o \notin DOMAIN P
    THEN [D |-> D, P |-> P, res |-> "NotFoundError"]
    ELSE LET pr == prop_results(c, o, at)
             prev_prop_results == items(P[o])
             old_props == {pv \in prev_prop_results \ pr : at[o][pv[1]] # Absent}
             new_props == pr \ prev_prop_results
         IN  IF duplicate_key(D, new_props)
             THEN [D |-> D, P |-> P, res |-> "DuplicateKeyError"]
             ELSE [D |-> insert_all(delete_all(D, old_props), new_props, o),
                   P |-> dict_set(P, o, dict_of(pr)),
                   res |-> "ok"]

\* MultiIndexedCollection.update_item
update_item_result(c, o, D, P, at) ==
    IF o \notin DOMAIN P
    THEN [D |-> D, P |-> P, res |-> "NotFoundError"]
    ELSE LET pr == prop_results(c, o, at)
             prev_prop_results == items(P[o])
             old_props == prev_prop_results \ pr
             new_props == pr \ prev_prop_results
         IN  IF duplicate_key(D, new_props)
             THEN [D |-> D, P |-> P, res |-> "DuplicateKeyError"]
             ELSE IF delete_fails(D, old_props)
             THEN [D |-> delete_all(D, old_props), P |-> P, res |-> "NotFoundError"]
             ELSE [D |-> insert_all(delete_all(D, old_props), new_props, o),
                   P |-> dict_set(P, o, dict_of(pr)),
                   res |-> "ok"]

\* clear that empties the sub-maps and leaves the registry
clear_result_keeps_registry(c) ==
    [D |-> [p \in properties(c) |-> EmptyDict], P |-> propdict[c]]

\* MultiIndexedCollection.clear
clear_result(c) ==
    [D |-> [p \in properties(c) |-> EmptyDict], P |-> EmptyDict]

\* the loop of AutoUpdatingItem.__setattr__:
\*   for collection in self._multi_indexed_collections: collection.update_item(self)
\* The first exception ends the loop.  DD and PP are all collections' state.
RECURSIVE notify(_, _, _, _, _)
notify(B, o, DD, PP, at) ==
    IF B = <<>> THEN [dicts |-> DD, propdict |-> PP, res |-> "ok"]
    ELSE LET c == Head(B)
             r == update_item_result(c, o, DD[c], PP[c], at)
             DD1 == [DD EXCEPT ![c] = r.D]
             PP1 == [PP EXCEPT ![c] = r.P]
         IN  IF r.res # "ok"
             THEN [dicts |-> DD1, propdict |-> PP1, res |-> r.res]
             ELSE notify(Tail(B), o, DD1, PP1, at)

\* MultiIndexedCollection.find; the result is the object or the error
find_result(D, p, v) ==
    IF p \notin DOMAIN D THEN "NotFoundError"
    ELSE IF v \notin DOMAIN D[p] THEN "NotFoundError"
    ELSE D[p][v]

find(c, p, v) == find_result(dicts[c], p, v)

\* MultiIndexedCollection.get: self._dicts[prop].get(value, d); the outer
\* lookup self._dicts[prop] raises KeyError for a prop that is not configured
Defaults == {"None", "False"}
get_result(D, p, v, d) ==
    IF p \notin DOMAIN D THEN "NotFoundError"
    ELSE IF v \in DOMAIN D[p] THEN D[p][v]
    ELSE d

\* MultiIndexedCollection.__contains__: val in self._dicts[prop]
contains_result(D, p, v) ==
    IF p \notin DOMAIN D THEN "NotFoundError"
    ELSE IF v \in DOMAIN D[p] THEN "True"
    ELSE "False"

\* MultiIndexedCollection.__copy__ / copy.  `other` is constructed from the
\* properties (empty sub-maps), other._propdict is assigned a copy of the
\* registry, and then `self.dicts` raises AttributeError: there is no such
\* attribute.  D and P are what `other` holds when the exception leaves copy().
copy_result(c, D, P) ==
    [res |-> "AttributeError", D |-> [p \in properties(c) |-> EmptyDict], P |-> P]

\* What keys() and values() hand back: a view of objects, of property
\* values or of property names, or an exception.  Two empty views are equal.
NoProp == "None"
answer(kind, S) ==
    [res |-> "ok",
     objects |-> IF kind = "objects" THEN S ELSE {},
     values |-> IF kind = "values" THEN S ELSE {},
     names |-> IF kind = "names" THEN S ELSE {}]
raised(e) == [res |-> e, objects |-> {}, values |-> {}, names |-> {}]

\* MultiIndexedCollection.keys:
\*   if prop: return self._propdict.keys()
\*   else:    return self._dicts[prop].keys()      (prop is None here)
keys_result(D, P, prop) ==
    IF prop # NoProp THEN answer("objects", DOMAIN P)
    ELSE raised("NotFoundError")

\* MultiIndexedCollection.values:
\*   if prop: return self._dicts[prop].keys()
\*   else:    return self._propdict.keys()
values_result(D, P, prop) ==
    IF prop # NoProp
    THEN IF prop \notin DOMAIN D THEN raised("NotFoundError")
         ELSE answer("values", DOMAIN D[prop])
    ELSE answer("objects", DOMAIN P)

\* MultiIndexedCollection.__len__
size(c) == Cardinality(DOMAIN propdict[c])

\* ------------------------------------------------------------------ state
B_of(o) == IF isinstance_AutoUpdatingItem(o) THEN multi_indexed_collections[o] ELSE <<>>

\* the attributes a class ever assigns: AutoUser has name and user_id
\* (AutoUser.__init__), the plain class here has only name
fields(o) == IF isinstance_AutoUpdatingItem(o) THEN {"name", "user_id"} ELSE FieldsOfPlain

\* the record of a call: the method, its collection and object, its outcome,
\* and the snapshot the collection held for the object when it was called
\* (for clear, which takes no object: the registry the collection held)
NoSnapshot == [x \in {"none"} |-> 0]
snapshot_of(c, o) == IF o \in DOMAIN propdict[c] THEN propdict[c][o] ELSE NoSnapshot
call(op, c, o, res) ==
    [op |-> op, c |-> c, o |-> o, res |-> res,
     old |-> IF op \in {"add", "remove", "discard", "update_item"}
             THEN snapshot_of(c, o)
             ELSE IF op = "clear" THEN propdict[c]
             ELSE NoSnapshot]

Init ==
    /\ attrs = [o \in Objects |-> [p \in Props |-> Absent]]
    /\ dicts = [c \in Collections |-> [p \in properties(c) |-> EmptyDict]]
    /\ propdict = [c \in Collections |-> EmptyDict]
    /\ multi_indexed_collections = [o \in AutoItems |-> <<>>]
    /\ last = [op |-> "init", c |-> "mic1", o |-> "pete", res |-> "ok", old |-> NoSnapshot]
    /\ n_add = [c \in Collections |-> 0]
    /\ n_remove = [c \in Collections |-> 0]
    /\ at_clear = [c \in Collections |-> 0]

set_B(o, B) ==
    IF isinstance_AutoUpdatingItem(o)
    THEN multi_indexed_collections' = [multi_indexed_collections EXCEPT ![o] = B]
    ELSE UNCHANGED multi_indexed_collections

add(c, o) ==
    LET r == add_result(c, o, dicts[c], propdict[c], B_of(o), attrs)
    IN  /\ Len(r.B) <= MaxBound
        /\ dicts' = [dicts EXCEPT ![c] = r.D]
        /\ propdict' = [propdict EXCEPT ![c] = r.P]
        /\ set_B(o, r.B)
        /\ UNCHANGED attrs

remove(c, o) ==
    LET r == remove_result(c, o, dicts[c], propdict[c], B_of(o), attrs)
    IN  /\ dicts' = [dicts EXCEPT ![c] = r.D]
        /\ propdict' = [propdict EXCEPT ![c] = r.P]
        /\ set_B(o, r.B)
        /\ UNCHANGED attrs

discard(c, o) ==
    LET r == discard_result(c, o, dicts[c], propdict[c], B_of(o), attrs)
    IN  /\ dicts' = [dicts EXCEPT ![c] = r.D]
        /\ propdict' = [propdict EXCEPT ![c] = r.P]
        /\ set_B(o, r.B)
        /\ UNCHANGED attrs

update_item(c, o) ==
    LET r == update_item_result(c, o, dicts[c], propdict[c], attrs)
    IN  /\ dicts' = [dicts EXCEPT ![c] = r.D]
        /\ propdict' = [propdict EXCEPT ![c] = r.P]
        /\ UNCHANGED <<attrs, multi_indexed_collections>>

clear(c) ==
    LET r == clear_result(c)
    IN  /\ dicts' = [dicts EXCEPT ![c] = r.D]
        /\ propdict' = [propdict EXCEPT ![c] = r.P]
        /\ UNCHANGED <<attrs, multi_indexed_collections>>

\* an attribute write that tells the collections of every object, plain
\* objects included
setattr_result_notifies_plain(o, p, v) ==
    LET at == [attrs EXCEPT ![o][p] = v]
        B == IF isinstance_AutoUpdatingItem(o) THEN multi_indexed_collections[o]
             ELSE IF o \in DOMAIN propdict["mic1"] THEN <<"mic1">>
             ELSE <<>>
    IN  notify(B, o, dicts, propdict, at)

\* obj.p = v.  For an AutoUpdatingItem this is AutoUpdatingItem.__setattr__:
\* the attribute is stored first, then every listed collection is notified.
setattr_result(o, p, v) ==
    LET at == [attrs EXCEPT ![o][p] = v]
    IN  IF isinstance_AutoUpdatingItem(o)
        THEN notify(multi_indexed_collections[o], o, dicts, propdict, at)
        ELSE [dicts |-> dicts, propdict |-> propdict, res |-> "ok"]

setattr(o, p, v) ==
    LET r == setattr_result(o, p, v)
    IN  /\ attrs' = [attrs EXCEPT ![o][p] = v]
        /\ dicts' = r.dicts
        /\ propdict' = r.propdict
        /\ UNCHANGED multi_indexed_collections

\* del obj.p: AutoUpdatingItem does not override __delattr__, nobody is told
delattr(o, p) ==
    /\ attrs[o][p] # Absent
    /\ attrs' = [attrs EXCEPT ![o][p] = Absent]
    /\ UNCHANGED <<dicts, propdict, multi_indexed_collections>>

\* outcomes, for the record of the last call
add_res(c, o) == add_result(c, o, dicts[c], propdict[c], B_of(o), attrs).res
remove_res(c, o) == remove_result(c, o, dicts[c], propdict[c], B_of(o), attrs).res
discard_res(c, o) == discard_result(c, o, dicts[c], propdict[c], B_of(o), attrs).res
update_item_res(c, o) == update_item_result(c, o, dicts[c], propdict[c], attrs).res

counters == <<n_add, n_remove, at_clear>>

\* `last` records the calls of the methods in obs; after a call of any other
\* method it holds Unobserved
Unobserved == [op |-> "other", c |-> "mic1", o |-> "pete", res |-> "ok", old |-> NoSnapshot]
observe(obs, op, c, o, res) ==
    /\ last' = IF op \in obs THEN call(op, c, o, res) ELSE Unobserved
    /\ UNCHANGED counters

Add(obs) == \E c \in Collections, o \in Objects :
    add(c, o) /\ observe(obs, "add", c, o, add_res(c, o))
Remove(obs) == \E c \in Collections, o \in Objects :
    remove(c, o) /\ observe(obs, "remove", c, o, remove_res(c, o))
Discard(obs) == \E c \in Collections, o \in Objects :
    discard(c, o) /\ observe(obs, "discard", c, o, discard_res(c, o))
UpdateItem(obs) == \E c \in Collections, o \in Objects :
    update_item(c, o) /\ observe(obs, "update_item", c, o, update_item_res(c, o))
Clear(obs) == \E c \in Collections :
    clear(c) /\ observe(obs, "clear", c, "pete", "ok")
SetAttr(obs) == \E o \in Objects : \E p \in fields(o) : \E v \in values_of(p) :
    setattr(o, p, v) /\ observe(obs, "setattr", "mic1", o, setattr_result(o, p, v).res)
DelAttr(obs) == \E o \in Objects : \E p \in fields(o) :
    delattr(o, p) /\ observe(obs, "delattr", "mic1", o, "ok")

Step(obs) == Add(obs) \/ Remove(obs) \/ Discard(obs) \/ UpdateItem(obs)
             \/ Clear(obs) \/ SetAttr(obs) \/ DelAttr(obs)

Methods == {"add", "remove", "discard", "update_item", "clear", "setattr", "delattr"}

\* every call recorded
Next == Step(Methods)
Spec == Init /\ [][Next]_vars

\* the same program with the calls of one method recorded
NextAdd == Step({"add"})
SpecAdd == Init /\ [][NextAdd]_vars
NextRemove == Step({"remove", "discard"})
SpecRemove == Init /\ [][NextRemove]_vars
NextUpdate == Step({"update_item"})
SpecUpdate == Init /\ [][NextUpdate]_vars
NextWrite == Step({"setattr"})
SpecWrite == Init /\ [][NextWrite]_vars
NextClear == Step({"clear"})
SpecClear == Init /\ [][NextClear]_vars

\* ---------------------------------------------------------------------
\* The same program with the sequence add(o); remove(o); add(o) recorded.
\* `last` follows an add that registered o ("round_add", old holds the
\* collection and o's list as that add left them), a remove(o) on the same
\* collection right after it ("round_remove") and an add(o) right after a
\* remove that returned normally ("round_readd").  Any other call ends the
\* sequence.
observe_round(op, c, o, res) ==
    /\ last' = IF /\ op = "add" /\ last.op = "round_remove" /\ last.res = "ok"
                  /\ last.c = c /\ last.o = o
               THEN [op |-> "round_readd", c |-> c, o |-> o, res |-> res,
                     old |-> last.old]
               ELSE IF op = "add" /\ res = "ok" /\ o \notin DOMAIN propdict[c]
               THEN [op |-> "round_add", c |-> c, o |-> o, res |-> res,
                     old |-> [D |-> dicts'[c], P |-> propdict'[c], B |-> B_of(o)']]
               ELSE IF op = "remove" /\ last.op = "round_add" /\ last.c = c /\ last.o = o
               THEN [op |-> "round_remove", c |-> c, o |-> o, res |-> res,
                     old |-> last.old]
               ELSE Unobserved
    /\ UNCHANGED counters

RoundAdd == \E c \in Collections, o \in Objects :
    add(c, o) /\ observe_round("add", c, o, add_res(c, o))
RoundRemove == \E c \in Collections, o \in Objects :
    remove(c, o) /\ observe_round("remove", c, o, remove_res(c, o))

NextRound == RoundAdd \/ RoundRemove \/ Discard({}) \/ UpdateItem({})
             \/ Clear({}) \/ SetAttr({}) \/ DelAttr({})
SpecRound == Init /\ [][NextRound]_vars

\* ---------------------------------------------------------------------
\* The same operations with the calls counted instead of recorded.
registers(c, o) == o \notin DOMAIN propdict[c] /\ add_res(c, o) = "ok"

CountAdd == \E c \in Collections, o \in Objects :
    /\ registers(c, o) => n_add[c] < MaxCount
    /\ add(c, o)
    /\ n_add' = IF registers(c, o) THEN [n_add EXCEPT ![c] = @ + 1] ELSE n_add
    /\ UNCHANGED <<n_remove, at_clear, last>>
CountRemove == \E c \in Collections, o \in Objects :
    /\ remove(c, o)
    /\ n_remove' = IF remove_res(c, o) = "ok" THEN [n_remove EXCEPT ![c] = @ + 1]
                   ELSE n_remove
    /\ UNCHANGED <<n_add, at_clear, last>>
\* discard calls self.remove(obj): a remove call that returns normally counts
CountDiscard == \E c \in Collections, o \in Objects :
    /\ discard(c, o)
    /\ n_remove' = IF remove_res(c, o) = "ok" THEN [n_remove EXCEPT ![c] = @ + 1]
                   ELSE n_remove
    /\ UNCHANGED <<n_add, at_clear, last>>
CountUpdateItem == \E c \in Collections, o \in Objects :
    update_item(c, o) /\ UNCHANGED <<counters, last>>
CountClear == \E c \in Collections :
    /\ clear(c)
    /\ at_clear' = [at_clear EXCEPT ![c] = n_add[c] - n_remove[c]]
    /\ UNCHANGED <<n_add, n_remove, last>>
CountSetAttr == \E o \in Objects : \E p \in fields(o) : \E v \in values_of(p) :
    setattr(o, p, v) /\ UNCHANGED <<counters, last>>
CountDelAttr == \E o \in Objects : \E p \in fields(o) :
    delattr(o, p) /\ UNCHANGED <<counters, last>>

NextCount == CountAdd \/ CountRemove \/ CountDiscard \/ CountUpdateItem
             \/ CountClear \/ CountSetAttr \/ CountDelAttr

SpecCount == Init /\ [][NextCount]_vars

\* =====================================================================
\* Properties
\* =====================================================================
Did(op, c, o) == last'.op = op /\ last'.c = c /\ last'.o = o

\* ('prop', value) in collection, as a lookup that cannot fail
indexed(c, p, v) == p \in DOMAIN dicts[c] /\ v \in DOMAIN dicts[c][p]

\* the object's current readable values differ from what collection c stored
stale(c, o) == o \in DOMAIN propdict[c] /\ items(propdict[c][o]) # prop_results(c, o, attrs)

\* C1: Invariant I2.  In every reachable state, every (p, v) of the snapshot
\* of a registered object o is indexed as indexes[p][v] = o, and every index
\* entry indexes[p][v] = o belongs to a registered o whose snapshot has s[p] = v.
C1_I2_Consistency ==
    \A c \in Collections :
        /\ \A o \in DOMAIN propdict[c] : \A p \in DOMAIN propdict[c][o] :
              /\ indexed(c, p, propdict[c][o][p])
              /\ dicts[c][p][propdict[c][o][p]] = o
        /\ \A p \in DOMAIN dicts[c] : \A v \in DOMAIN dicts[c][p] :
              LET o == dicts[c][p][v]
              IN  /\ o \in DOMAIN propdict[c]
                  /\ p \in DOMAIN propdict[c][o]
                  /\ propdict[c][o][p] = v

\* an update_item call has just failed on an object that is indexed under
\* two properties and was mutated since, in a collection holding two objects
C1_Witness ==
    /\ last.op = "update_item" /\ last.res = "DuplicateKeyError"
    /\ Cardinality(DOMAIN propdict[last.c]) = 2
    /\ Cardinality(DOMAIN propdict[last.c][last.o]) = 2
    /\ stale(last.c, last.o)

\* C2: add(obj) of an unregistered object one of whose current values is
\* already present in its property's sub-map fails with DuplicateKeyError and
\* leaves sub-maps, registry, size, find and membership as they were.
C2_AddDuplicateLeavesCollection ==
    [][\A c \in Collections, o \in Objects :
          (/\ Did("add", c, o)
           /\ o \notin DOMAIN propdict[c]
           /\ \E p \in properties(c) : attrs[o][p] # Absent /\ indexed(c, p, attrs[o][p]))
          => /\ last'.res = "DuplicateKeyError"
             /\ dicts' = dicts
             /\ propdict' = propdict
             /\ size(c)' = size(c)
             /\ \A p \in Props, v \in Values :
                   /\ find(c, p, v)' = find(c, p, v)
                   /\ indexed(c, p, v)' = indexed(c, p, v)]_vars

\* the add that just failed had one colliding and one free property
C2_Witness ==
    /\ last.op = "add" /\ last.res = "DuplicateKeyError"
    /\ last.o \notin DOMAIN propdict[last.c]
    /\ \E p, q \in properties(last.c) :
          /\ attrs[last.o][p] # Absent /\ indexed(last.c, p, attrs[last.o][p])
          /\ attrs[last.o][q] # Absent /\ ~indexed(last.c, q, attrs[last.o][q])

\* C3 as stated: after every add(o) that returns normally, find(p, o.p)
\* returns o for every configured property o exposes.
C3_FindAfterAnyAdd ==
    [][\A c \in Collections, o \in Objects :
          (Did("add", c, o) /\ last'.res = "ok")
          => \A p \in properties(c) :
                attrs'[o][p] # Absent => find_result(dicts'[c], p, attrs'[o][p]) = o]_vars

\* C3 (amended): after an add(o) that returns normally for an object that
\* was not registered before the call, find(p, o.p) returns o for every
\* configured property o exposes.
C3_FindAfterRegisteringAdd ==
    [][\A c \in Collections, o \in Objects :
          (Did("add", c, o) /\ last'.res = "ok" /\ o \notin DOMAIN propdict[c])
          => \A p \in properties(c) :
                attrs'[o][p] # Absent => find_result(dicts'[c], p, attrs'[o][p]) = o]_vars

\* an object exposing two configured properties has just been registered
C3_Witness ==
    /\ last.op = "add" /\ last.res = "ok" /\ last.old = NoSnapshot
    /\ last.o \in DOMAIN propdict[last.c]
    /\ Cardinality({p \in properties(last.c) : attrs[last.o][p] # Absent}) = 2

\* the value collection c stored for property p of o, Absent if none
stored(c, o, p) ==
    IF o \in DOMAIN propdict[c] /\ p \in DOMAIN propdict[c][o] THEN propdict[c][o][p]
    ELSE Absent

\* C4: for a registered o whose indexed property p was mutated from A to B,
\* B not indexed under p, after update_item(o) succeeds find(p, A) fails with
\* NotFoundError and find(p, B) returns o.
C4_UpdateItemMovesKey ==
    [][\A c \in Collections, o \in Objects : \A p \in properties(c) :
          (/\ Did("update_item", c, o) /\ last'.res = "ok"
           /\ stored(c, o, p) # Absent
           /\ attrs[o][p] # Absent
           /\ attrs[o][p] # stored(c, o, p)
           /\ ~indexed(c, p, attrs[o][p]))
          => /\ find_result(dicts'[c], p, stored(c, o, p)) = "NotFoundError"
             /\ find_result(dicts'[c], p, attrs[o][p]) = o]_vars

\* update_item has just moved an object from the key it was stored under
C4_Witness ==
    /\ last.op = "update_item" /\ last.res = "ok" /\ last.old # NoSnapshot
    /\ \E p \in DOMAIN last.old :
          /\ attrs[last.o][p] # Absent
          /\ attrs[last.o][p] # last.old[p]
          /\ find(last.c, p, attrs[last.o][p]) = last.o

\* C5: update_item(o) in which a changed (property, value) pair of o is
\* already occupied fails with DuplicateKeyError before any mutation: every
\* sub-map and the registry are as they were.
C5_UpdateItemDuplicateLeavesCollection ==
    [][\A c \in Collections, o \in Objects :
          (/\ Did("update_item", c, o)
           /\ o \in DOMAIN propdict[c]
           /\ \E pv \in prop_results(c, o, attrs) \ items(propdict[c][o]) :
                 indexed(c, pv[1], pv[2]))
          => /\ last'.res = "DuplicateKeyError"
             /\ dicts' = dicts
             /\ propdict' = propdict]_vars

\* the update_item that just failed had a colliding new value for one
\* property and a changed other property whose old entry is still in place
C5_Witness ==
    /\ last.op = "update_item" /\ last.res = "DuplicateKeyError"
    /\ \E p, q \in properties(last.c) :
          /\ p # q
          /\ attrs[last.o][p] # Absent
          /\ attrs[last.o][p] # stored(last.c, last.o, p)
          /\ indexed(last.c, p, attrs[last.o][p])
          /\ stored(last.c, last.o, q) # Absent
          /\ stored(last.c, last.o, q) # attrs[last.o][q]
          /\ find(last.c, q, stored(last.c, last.o, q)) = last.o

\* C6: a write u.p := B (previous value A, B not indexed under p in any
\* collection u is registered in) on an auto-updating u re-indexes u in every
\* one of those collections before it returns: find(p, B) is u and find(p, A)
\* fails with NotFoundError.
C6_WriteReindexesEverywhere ==
    [][\A u \in AutoItems, p \in Props :
          LET A == attrs[u][p]
              B == attrs'[u][p]
              regs == {c \in Collections : u \in DOMAIN propdict[c] /\ p \in properties(c)}
          IN  (/\ last'.op = "setattr" /\ last'.o = u
               /\ A # Absent /\ B # A
               /\ regs # {}
               /\ \A c \in regs : ~indexed(c, p, B))
              => \A c \in regs :
                    /\ find_result(dicts'[c], p, B) = u
                    /\ find_result(dicts'[c], p, A) = "NotFoundError"]_vars

occurrences(B, c) == Cardinality({i \in 1..Len(B) : B[i] = c})

\* C7: in every reachable state the bound set of an auto-updating object
\* contains a collection exactly when the object is registered in it, and
\* contains it once.
C7_BoundIffRegistered ==
    \A u \in AutoItems, c \in Collections :
        occurrences(multi_indexed_collections[u], c)
            = IF u \in DOMAIN propdict[c] THEN 1 ELSE 0

\* C8: remove(o) of a registered object deletes exactly the entries of o's
\* stored snapshot and o's registry entry; afterwards no sub-map maps a value
\* to o and the entries and snapshots of every other object are unchanged.
C8_RemoveDeletesSnapshotEntries ==
    [][\A c \in Collections, o \in Objects :
          (Did("remove", c, o) /\ o \in DOMAIN propdict[c])
          => /\ last'.res = "ok"
             /\ DOMAIN propdict'[c] = DOMAIN propdict[c] \ {o}
             /\ \A x \in DOMAIN propdict'[c] : propdict'[c][x] = propdict[c][x]
             /\ \A p \in properties(c), v \in Values :
                   /\ find_result(dicts'[c], p, v) # o
                   /\ find_result(dicts'[c], p, v)
                        = IF <<p, v>> \in items(propdict[c][o]) THEN "NotFoundError"
                          ELSE find(c, p, v)
             /\ \A d \in Collections \ {c} :
                   dicts'[d] = dicts[d] /\ propdict'[d] = propdict[d]]_vars

\* the object just removed was indexed under two properties and had been
\* mutated since; the other object is still registered
C8_Witness ==
    /\ last.op = "remove" /\ last.res = "ok" /\ last.old # NoSnapshot
    /\ Cardinality(DOMAIN last.old) = 2
    /\ items(last.old) # prop_results(last.c, last.o, attrs)
    /\ last.o \notin DOMAIN propdict[last.c]
    /\ DOMAIN propdict[last.c] # {}

\* C9: remove(obj) of an unregistered object fails with NotFoundError and
\* changes nothing; discard(obj) of an unregistered object returns normally
\* and changes nothing; discard(obj) of a registered object does what
\* remove(obj) does.
C9_RemoveAndDiscard ==
    [][\A c \in Collections, o \in Objects :
          /\ (Did("remove", c, o) /\ o \notin DOMAIN propdict[c])
             => /\ last'.res = "NotFoundError"
                /\ UNCHANGED <<attrs, dicts, propdict, multi_indexed_collections>>
          /\ (Did("discard", c, o) /\ o \notin DOMAIN propdict[c])
             => /\ last'.res = "ok"
                /\ UNCHANGED <<attrs, dicts, propdict, multi_indexed_collections>>
          /\ (Did("discard", c, o) /\ o \in DOMAIN propdict[c])
             => LET r == remove_result(c, o, dicts[c], propdict[c], B_of(o), attrs)
                IN  /\ last'.res = "ok" /\ r.res = "ok"
                    /\ dicts' = [dicts EXCEPT ![c] = r.D]
                    /\ propdict' = [propdict EXCEPT ![c] = r.P]
                    /\ o \notin DOMAIN propdict'[c]
                    /\ \A p \in properties(c), v \in Values :
                          find_result(dicts'[c], p, v) # o
                    /\ isinstance_AutoUpdatingItem(o)
                          => multi_indexed_collections'[o] = r.B
                    /\ UNCHANGED attrs]_vars

\* discard has just removed a registered auto-updating object
C9_Witness ==
    /\ last.op = "discard" /\ last.res = "ok" /\ last.old # NoSnapshot
    /\ isinstance_AutoUpdatingItem(last.o)
    /\ last.o \notin DOMAIN propdict[last.c]

\* C10 as stated: size() is the number of successful add calls (not counting
\* add of a registered object) minus the number of successful remove calls.
C10_SizeIsAddsMinusRemoves ==
    \A c \in Collections : size(c) = n_add[c] - n_remove[c]

\* C10 (amended): size() is the number of successful add calls (not counting
\* add of a registered object) minus the number of successful remove calls,
\* both counted since the collection was constructed or last cleared.
C10_SizeIsAddsMinusRemovesSinceClear ==
    \A c \in Collections : size(c) = (n_add[c] - n_remove[c]) - at_clear[c]

\* add, clear, add and remove have all succeeded on one collection
C10_Witness ==
    \E c \in Collections : n_add[c] = 2 /\ n_remove[c] = 1 /\ at_clear[c] = 1

\* C11: add(obj) of an already registered object is a no-op: sub-maps,
\* registry (the stored snapshot too, also when obj was mutated since), size
\* and obj's list of bound collections are unchanged, and no error is raised.
C11_AddRegisteredIsNoOp ==
    [][\A c \in Collections, o \in Objects :
          (Did("add", c, o) /\ o \in DOMAIN propdict[c])
          => /\ last'.res = "ok"
             /\ size(c)' = size(c)
             /\ UNCHANGED <<attrs, dicts, propdict, multi_indexed_collections>>]_vars

\* add has just returned for a registered auto-updating object whose
\* attributes no longer match its stored snapshot
C11_Witness ==
    /\ last.op = "add" /\ last.res = "ok" /\ last.old # NoSnapshot
    /\ isinstance_AutoUpdatingItem(last.o)
    /\ stale(last.c, last.o)
    /\ propdict[last.c][last.o] = last.old

\* C12: get(prop, value, default) returns what find(prop, value) returns
\* whenever find succeeds and default in every case where find fails; it
\* never raises.
C12_GetIsFindOrDefault ==
    \A c \in Collections, p \in Props, v \in Values, d \in Defaults :
        get_result(dicts[c], p, v, d)
            = IF find(c, p, v) = "NotFoundError" THEN d ELSE find(c, p, v)

\* C13: (prop, value) in collection is true exactly when find(prop, value)
\* succeeds and false otherwise; it never fails.
C13_MembershipIsFindSucceeds ==
    \A c \in Collections, p \in Props, v \in Values :
        contains_result(dicts[c], p, v)
            = IF find(c, p, v) = "NotFoundError" THEN "False" ELSE "True"

\* C14: copy() returns a new collection with the same property set whose
\* find, membership and size results equal the source's at the time of the
\* copy and which holds the same objects.
C14_CopyAnswersLikeSource ==
    \A c \in Collections :
        LET r == copy_result(c, dicts[c], propdict[c])
        IN  /\ r.res = "ok"
            /\ DOMAIN r.D = properties(c)
            /\ DOMAIN r.P = DOMAIN propdict[c]
            /\ Cardinality(DOMAIN r.P) = size(c)
            /\ \A p \in properties(c), v \in Values :
                  /\ find_result(r.D, p, v) = find(c, p, v)
                  /\ contains_result(r.D, p, v) = contains_result(dicts[c], p, v)

\* C15: keys() without an argument yields exactly the configured property
\* names, and keys(prop) yields exactly the values indexed under prop.
C15_KeysYieldsNamesOrValues ==
    \A c \in Collections :
        /\ keys_result(dicts[c], propdict[c], NoProp) = answer("names", properties(c))
        /\ \A p \in properties(c) :
              keys_result(dicts[c], propdict[c], p) = answer("values", DOMAIN dicts[c][p])

\* C16: values(prop) yields exactly the objects that hold an indexed value
\* for prop, and values() without an argument yields exactly the registered
\* objects.
C16_ValuesYieldsObjects ==
    \A c \in Collections :
        /\ values_result(dicts[c], propdict[c], NoProp) = answer("objects", DOMAIN propdict[c])
        /\ \A p \in properties(c) :
              values_result(dicts[c], propdict[c], p)
                  = answer("objects", {dicts[c][p][v] : v \in DOMAIN dicts[c][p]})

\* C17: after clear() the registry is empty and every configured property
\* has an empty sub-map (size is 0 and membership is false for every
\* configured property and value), the property set is unchanged, and any
\* object, including one registered before the clear, can be added again.
C17_ClearEmptiesAndKeepsProperties ==
    [][\A c \in Collections :
          (last'.op = "clear" /\ last'.c = c)
          => /\ propdict'[c] = EmptyDict
             /\ DOMAIN dicts'[c] = properties(c)
             /\ DOMAIN dicts'[c] = DOMAIN dicts[c]
             /\ \A p \in properties(c) : dicts'[c][p] = EmptyDict
             /\ size(c)' = 0
             /\ \A p \in properties(c), v \in Values :
                   contains_result(dicts'[c], p, v) = "False"
             /\ \A o \in Objects :
                   LET r == add_result(c, o, dicts'[c], propdict'[c], B_of(o)', attrs')
                   IN  /\ r.res = "ok"
                       /\ o \in DOMAIN r.P
                       /\ \A p \in properties(c) :
                             attrs'[o][p] # Absent
                             => find_result(r.D, p, attrs'[o][p]) = o]_vars

\* clear has just emptied a collection of two properties in which every
\* object was registered
C17_Witness ==
    /\ last.op = "clear"
    /\ properties(last.c) = Props
    /\ DOMAIN last.old = Objects
    /\ size(last.c) = 0

\* C18 as stated: a write o.p := B on a registered object without the
\* auto-update capability, p indexed for o under A, B different from A,
\* changes nothing in the collection: find(p, A) still returns o and
\* find(p, B) fails with NotFoundError.
C18_PlainWriteNewValueNotFound ==
    [][\A o \in PlainItems, c \in Collections : \A p \in properties(c) :
          (/\ last'.op = "setattr" /\ last'.o = o
           /\ stored(c, o, p) # Absent
           /\ attrs'[o][p] # attrs[o][p]
           /\ attrs'[o][p] # stored(c, o, p))
          => /\ dicts' = dicts
             /\ propdict' = propdict
             /\ find_result(dicts'[c], p, stored(c, o, p)) = o
             /\ find_result(dicts'[c], p, attrs'[o][p]) = "NotFoundError"]_vars

\* C18 (amended): a write o.p := B on a registered object without the
\* auto-update capability, p indexed for o under A, B different from A,
\* changes nothing in the collection: find(p, A) still returns o and
\* find(p, B) does not return o; it returns what it returned before the
\* write, which is NotFoundError unless another object is indexed under B.
C18_PlainWriteLeavesCollection ==
    [][\A o \in PlainItems, c \in Collections : \A p \in properties(c) :
          (/\ last'.op = "setattr" /\ last'.o = o
           /\ stored(c, o, p) # Absent
           /\ attrs'[o][p] # attrs[o][p]
           /\ attrs'[o][p] # stored(c, o, p))
          => /\ dicts' = dicts
             /\ propdict' = propdict
             /\ find_result(dicts'[c], p, stored(c, o, p)) = o
             /\ find_result(dicts'[c], p, attrs'[o][p]) # o
             /\ find_result(dicts'[c], p, attrs'[o][p]) = find(c, p, attrs'[o][p])
             /\ ~indexed(c, p, attrs'[o][p])
                   => find_result(dicts'[c], p, attrs'[o][p]) = "NotFoundError"]_vars

\* a plain object registered in both collections has just been written and
\* is still found under the value it was indexed with; in one collection the
\* new value is free, in the other it belongs to another object
C18_Witness ==
    /\ last.op = "setattr" /\ last.o \in PlainItems
    /\ \A c \in Collections :
          /\ stored(c, last.o, "name") # Absent
          /\ attrs[last.o]["name"] # stored(c, last.o, "name")
          /\ find(c, "name", stored(c, last.o, "name")) = last.o
    /\ \E c, d \in Collections :
          /\ find(c, "name", attrs[last.o]["name"]) = "NotFoundError"
          /\ find(d, "name", attrs[last.o]["name"]) \in Objects \ {last.o}

\* the collections of a _multi_indexed_collections list, as a set
bound_set(B) == {B[i] : i \in 1..Len(B)}

\* C19: for an object o that can be added, add(o); remove(o); add(o) succeeds
\* at every step, and the final state gives the same find, membership and
\* size results, and for an auto-updating o the same bound set, as the state
\* after the first add.
C19_AddRemoveAddRestores ==
    /\ last.op = "round_remove" => last.res = "ok"
    /\ last.op = "round_readd"
       => /\ last.res = "ok"
          /\ dicts[last.c] = last.old.D
          /\ propdict[last.c] = last.old.P
          /\ size(last.c) = Cardinality(DOMAIN last.old.P)
          /\ \A p \in Props, v \in Values :
                /\ find(last.c, p, v) = find_result(last.old.D, p, v)
                /\ contains_result(dicts[last.c], p, v) = contains_result(last.old.D, p, v)
          /\ bound_set(B_of(last.o)) = bound_set(last.old.B)

\* an auto-updating object indexed under two properties has just been added
\* again, next to another registered object, while bound to the other
\* collection too
C19_Witness ==
    /\ last.op = "round_readd" /\ last.res = "ok"
    /\ isinstance_AutoUpdatingItem(last.o)
    /\ last.o \in DOMAIN propdict[last.c]
    /\ Cardinality(DOMAIN propdict[last.c][last.o]) = 2
    /\ size(last.c) = 2
    /\ Cardinality(bound_set(B_of(last.o))) = 2

\* C20: once a property write on a bound auto-updating object has returned
\* or failed, in every collection the object is bound to, the stored snapshot
\* equals the object's current readable values for the configured properties
\* (so that the attribute is never left changed while an index holds the old
\* value, and the collections agree with one another).  Stated for an object
\* whose list holds exactly the collections it is registered in, once each.
C20_WriteIsAtomic ==
    \A u \in AutoItems :
        (/\ last.op = "setattr" /\ last.o = u
         /\ \A c \in Collections :
               occurrences(multi_indexed_collections[u], c)
                   = IF u \in DOMAIN propdict[c] THEN 1 ELSE 0)
        => \A c \in bound_set(multi_indexed_collections[u]) :
              items(propdict[c][u]) = prop_results(c, u, attrs)

\* C21: the auto_update option controls binding: an add that registers an
\* auto-updating object binds the collection to it when the collection was
\* constructed with auto_update true, and does not bind it when auto_update
\* is false (the default).
C21_AutoUpdateControlsBinding ==
    [][\A c \in Collections, u \in AutoItems :
          (Did("add", c, u) /\ last'.res = "ok" /\ u \notin DOMAIN propdict[c])
          => occurrences(multi_indexed_collections'[u], c)
                = occurrences(multi_indexed_collections[u], c)
                  + (IF auto_update(c) THEN 1 ELSE 0)]_vars

\* C22: after every successful update_item(o), o's stored snapshot is exactly
\* the set of (p, current value of o.p) for the configured properties o
\* exposes: a property o gained since it was indexed is findable, a property
\* o no longer exposes has its entry removed, and unchanged properties stay
\* indexed; update_item(o) on an unmutated object succeeds and changes no
\* lookup result.
C22_UpdateItemMirrorsObject ==
    [][\A c \in Collections, o \in Objects :
          /\ (Did("update_item", c, o) /\ last'.res = "ok")
             => /\ o \in DOMAIN propdict'[c]
                /\ items(propdict'[c][o]) = prop_results(c, o, attrs')
                /\ UNCHANGED attrs
                /\ \A p \in properties(c) :
                      /\ attrs[o][p] # Absent
                         => find_result(dicts'[c], p, attrs[o][p]) = o
                      /\ (stored(c, o, p) # Absent /\ attrs[o][p] # stored(c, o, p))
                         => find_result(dicts'[c], p, stored(c, o, p)) = "NotFoundError"
                      /\ \A v \in Values :
                            find_result(dicts'[c], p, v) = o => attrs[o][p] = v
          /\ (/\ Did("update_item", c, o)
              /\ o \in DOMAIN propdict[c]
              /\ items(propdict[c][o]) = prop_results(c, o, attrs))
             => /\ last'.res = "ok"
                /\ UNCHANGED <<attrs, dicts, propdict, multi_indexed_collections>>
                /\ \A p \in Props, v \in Values :
                      find_result(dicts'[c], p, v) = find(c, p, v)]_vars

\* update_item has just succeeded on an object that had lost one indexed
\* property and gained another since it was indexed
C22_Witness ==
    /\ last.op = "update_item" /\ last.res = "ok" /\ last.old # NoSnapshot
    /\ \E p, q \in properties(last.c) :
          /\ p \in DOMAIN last.old /\ attrs[last.o][p] = Absent
          /\ find(last.c, p, last.old[p]) = "NotFoundError"
          /\ q \notin DOMAIN last.old /\ attrs[last.o][q] # Absent
          /\ find(last.c, q, attrs[last.o][q]) = last.o

\* C23: update_item(obj) on an object that is not registered in the
\* collection (never added, removed, or dropped by clear) fails with an error
\* and leaves every sub-map and the registry unchanged; it never registers the
\* object or inserts index entries for it.
C23_UpdateItemUnregisteredFails ==
    [][\A c \in Collections, o \in Objects :
          (Did("update_item", c, o) /\ o \notin DOMAIN propdict[c])
          => /\ last'.res = "NotFoundError"
             /\ dicts' = dicts
             /\ propdict' = propdict
             /\ o \notin DOMAIN propdict'[c]
             /\ \A p \in properties(c), v \in Values :
                   find_result(dicts'[c], p, v) # o
             /\ UNCHANGED <<attrs, multi_indexed_collections>>]_vars

\* update_item has just failed for an auto-updating object that the
\* collection does not hold although it is still in the object's list (after
\* a clear or a failed add), and whose values are all free in the collection
C23_Witness ==
    /\ last.op = "update_item" /\ last.res = "NotFoundError"
    /\ last.old = NoSnapshot
    /\ isinstance_AutoUpdatingItem(last.o)
    /\ last.o \notin DOMAIN propdict[last.c]
    /\ in_list(multi_indexed_collections[last.o], last.c)
    /\ \A p \in properties(last.c) :
          /\ attrs[last.o][p] # Absent
          /\ ~indexed(last.c, p, attrs[last.o][p])

TypeOK ==
    /\ attrs \in [Objects -> [Props -> Values \cup {Absent}]]
    /\ \A c \in Collections : DOMAIN dicts[c] = properties(c)
    /\ \A c \in Collections : DOMAIN propdict[c] \subseteq Objects
====
